---- MODULE Spec2Model ----
(***************************************************************************)
(* The websocket notification hub of src/api/notifications.rs:             *)
(* the registry of push connections (WebSocketUsers.map), the connection   *)
(* handler callbacks (WSHandler, WSFactory) and the publish operations     *)
(* (WebSocketUsers::send_*_update), with the binary frame encoder.         *)
(*                                                                         *)
(* Strings and frames are sequences of bytes (0..255).  The websocket      *)
(* server runs its callbacks on one thread (start_notification_server),    *)
(* so a panic inside a callback ends every connection's callbacks; the     *)
(* publish operations run on the request threads and interleave with it.   *)
(***************************************************************************)
EXTENDS Integers, Sequences, FiniteSets, TLC

\* ---------------------------------------------------------------- bounds
MaxConns == 2       \* connections the server accepts in one run
MaxMsgs == 2        \* inbound messages handled per connection
MaxTargets == 2     \* length of the user_uuids list of a cipher publish

\* ------------------------------------------------------- program constants
RECORD_SEPARATOR == 30
INITIAL_RESPONSE == <<123, 125, RECORD_SEPARATOR>>
PING == 1
PING_MS == 15000

SyncCipherUpdate == 0
SyncCipherCreate == 1
SyncFolderDelete == 3
SyncVault == 5
SyncFolderCreate == 7
SyncFolderUpdate == 8
SyncCipherDelete == 9
LogOut == 11

None == "None"
Users == {"u1", "u2"}
Conns == 1..MaxConns

\* ------------------------------------------------------------ sequences
Range(s) == {s[i] : i \in 1..Len(s)}

Min(S) == CHOOSE x \in S : \A y \in S : x <= y

\* s[n..] of a str: the bytes after the first n.
SliceFrom(s, n) == SubSeq(s, n + 1, Len(s))

\* s[..n] of a str: the first n bytes.
SliceTo(s, n) == SubSeq(s, 1, n)

\* str::is_char_boundary: 0, len, or a byte that is no UTF-8 continuation
\* byte (0x80..0xBF).  Slicing a str anywhere else panics.
IsCharBoundary(s, n) ==
    \/ n = 0
    \/ n = Len(s)
    \/ /\ n > 0
       /\ n < Len(s)
       /\ ~(s[n + 1] >= 128 /\ s[n + 1] <= 191)

\* Bytewise order of two strs (Rust's Ord for str), strict.
RECURSIVE StrLess(_, _)
StrLess(a, b) ==
    IF Len(b) = 0 THEN FALSE
    ELSE IF Len(a) = 0 THEN TRUE
    ELSE IF a[1] # b[1] THEN a[1] < b[1]
    ELSE StrLess(Tail(a), Tail(b))

\* str::split(sep) collected: the segments between the separators.
RECURSIVE Split(_, _)
Split(s, sep) ==
    LET idx == {i \in 1..Len(s) : s[i] = sep} IN
    IF idx = {} THEN <<s>>
    ELSE LET i == Min(idx) IN
         <<SubSeq(s, 1, i - 1)>> \o Split(SubSeq(s, i + 1, Len(s)), sep)

\* The elements of a set as a sequence, smallest first.
RECURSIVE SetToSeq(_)
SetToSeq(S) ==
    IF S = {} THEN <<>> ELSE <<Min(S)>> \o SetToSeq(S \ {Min(S)})

\* Vec::remove_item: removes the first element equal to x, if there is one.
RECURSIVE remove_item(_, _)
remove_item(v, x) ==
    IF v = <<>> THEN <<>>
    ELSE IF Head(v) = x THEN Tail(v)
    ELSE <<Head(v)>> \o remove_item(Tail(v), x)

\* ------------------------------------------------------ msgpack values
\* rmpv::Value, as far as the hub builds it.
VNil == [t |-> "nil"]
VInt(n) == [t |-> "int", v |-> n]
VStr(s) == [t |-> "str", v |-> s]
VArr(a) == [t |-> "arr", v |-> a]
VMap(m) == [t |-> "map", v |-> m]
VExt(ty, bytes) == [t |-> "ext", ty |-> ty, v |-> bytes]

\* The UTF-8 bytes of the strings the hub puts in a frame.
StrBytes(s) ==
    CASE s = "ReceiveMessage" -> <<82, 101, 99, 101, 105, 118, 101, 77, 101, 115, 115, 97, 103, 101>>
      [] s = "ContextId" -> <<67, 111, 110, 116, 101, 120, 116, 73, 100>>
      [] s = "app_id" -> <<97, 112, 112, 95, 105, 100>>
      [] s = "Type" -> <<84, 121, 112, 101>>
      [] s = "Payload" -> <<80, 97, 121, 108, 111, 97, 100>>
      [] s = "Id" -> <<73, 100>>
      [] s = "UserId" -> <<85, 115, 101, 114, 73, 100>>
      [] s = "OrganizationId" -> <<79, 114, 103, 97, 110, 105, 122, 97, 116, 105, 111, 110, 73, 100>>
      [] s = "CollectionIds" -> <<67, 111, 108, 108, 101, 99, 116, 105, 111, 110, 73, 100, 115>>
      [] s = "RevisionDate" -> <<82, 101, 118, 105, 115, 105, 111, 110, 68, 97, 116, 101>>
      [] s = "Date" -> <<68, 97, 116, 101>>
      [] s = "u1" -> <<117, 49>>
      [] s = "u2" -> <<117, 50>>
      [] s = "f1" -> <<102, 49>>
      [] s = "f2" -> <<102, 50>>
      [] s = "c1" -> <<99, 49>>
      [] s = "c2" -> <<99, 50>>
      [] s = "o1" -> <<111, 49>>

\* rmpv::encode::write_value for the values above: nil, positive fixint,
\* fixstr, fixarray (array 16 from 16 elements on), fixmap and fixext 8
\* (type as one signed byte).
RECURSIVE write_value(_)
RECURSIVE write_all(_)
RECURSIVE write_pairs(_)
write_all(a) ==
    IF a = <<>> THEN <<>>
    ELSE IF Len(a) = 1 THEN write_value(a[1])
    ELSE LET mid == Len(a) \div 2
         IN  write_all(SubSeq(a, 1, mid)) \o write_all(SubSeq(a, mid + 1, Len(a)))

write_pairs(m) ==
    IF m = <<>> THEN <<>>
    ELSE write_value(Head(m)[1]) \o write_value(Head(m)[2]) \o write_pairs(Tail(m))

write_value(val) ==
    CASE val.t = "nil" -> <<192>>
      [] val.t = "int" -> <<val.v>>
      [] val.t = "str" -> <<160 + Len(StrBytes(val.v))>> \o StrBytes(val.v)
      [] val.t = "arr" ->
            (IF Len(val.v) < 16 THEN <<144 + Len(val.v)>>
             ELSE <<220, Len(val.v) \div 256, Len(val.v) % 256>>) \o write_all(val.v)
      [] val.t = "map" -> <<128 + Len(val.v)>> \o write_pairs(val.v)
      [] val.t = "ext" -> <<215, (val.ty + 256) % 256>> \o val.v

\* The size bytes serialize puts before the body: 7 bits a byte, least
\* significant first, 0x80 set on every byte but the last.
RECURSIVE len_buf_no_flag(_)
len_buf_no_flag(size) ==
    LET size_part == size % 128
        rest == size \div 128
    IN  IF rest > 0 THEN <<size_part>> \o len_buf_no_flag(rest)
        ELSE <<size_part>>

RECURSIVE len_buf(_)
len_buf(size) ==
    LET size_part == size % 128
        rest == size \div 128
    IN  IF rest > 0 THEN <<size_part + 128>> \o len_buf(rest)
        ELSE <<size_part>>

serialize(val) ==
    LET buf == write_value(val) IN len_buf(Len(buf)) \o buf

\* Bit i (0 = least significant) of seconds as an i64 in two's complement.
\* seconds is within the 32-bit range here.
SecBit(seconds, i) ==
    IF i >= 31 THEN (IF seconds < 0 THEN 1 ELSE 0)
    ELSE IF seconds >= 0 THEN (seconds \div (2 ^ i)) % 2
    ELSE (((seconds + 2 ^ 30) + 2 ^ 30) \div (2 ^ i)) % 2

\* Bit i of nanos << 34 as an i64.
NanoBit(nanos, i) ==
    IF i < 34 THEN 0 ELSE (nanos \div (2 ^ (i - 34))) % 2

\* Bit i of nanos << 34 | seconds.
TimestampBit(date, i) ==
    IF SecBit(date.secs, i) = 1 \/ NanoBit(date.nanos, i) = 1 THEN 1 ELSE 0

\* Byte k (1 = most significant) of the big-endian i64.
TimestampByte(date, k) ==
    LET lo == (8 - k) * 8
        B(j) == TimestampBit(date, lo + j) * (2 ^ j)
    IN  B(0) + B(1) + B(2) + B(3) + B(4) + B(5) + B(6) + B(7)

serialize_date_little_endian(date) ==
    VExt(-1, [k \in 1..8 |-> TimestampByte(date, 9 - k)])

serialize_date(date) ==
    VExt(-1, [k \in 1..8 |-> TimestampByte(date, k)])

convert_option(option) ==
    IF option = None THEN VNil ELSE VStr(option)

create_update(payload, ut) ==
    serialize(VArr(<<
        VInt(1),
        VArr(<<>>),
        VNil,
        VStr("ReceiveMessage"),
        VArr(<<VMap(<<
            <<VStr("ContextId"), VStr("app_id")>>,
            <<VStr("Type"), VInt(ut)>>,
            <<VStr("Payload"), VMap(payload)>>
        >>)>>)
    >>))

create_ping == serialize(VArr(<<VInt(6)>>))

\* ------------------------------------------------------------- inputs
\* Request resources a client may open the websocket with.  JWT1 and JWT2
\* stand for access tokens the verifier accepts, BAD for one it refuses.
\* '/hub'
ResNoQuery ==
    <<47, 104, 117, 98>>
\* '/hub?'
ResEmptyQuery ==
    <<47, 104, 117, 98, 63>>
\* '/hub?id=x'
ResOnlyId ==
    <<47, 104, 117, 98, 63, 105, 100, 61, 120>>
\* '/hub?access_token=JWT1'
ResOnlyToken ==
    <<47, 104, 117, 98, 63, 97, 99, 99, 101, 115, 115, 95, 116, 111, 107, 101, 110, 61, 74, 87, 84, 49>>
\* '/hub?id=x&access_token=JWT1'
ResU1 ==
    <<47, 104, 117, 98, 63, 105, 100, 61, 120, 38, 97, 99, 99, 101, 115, 115, 95, 116, 111, 107, 101, 110, 61, 74, 87, 84, 49>>
\* '/hub?access_token=JWT2&id=y'
ResU2 ==
    <<47, 104, 117, 98, 63, 97, 99, 99, 101, 115, 115, 95, 116, 111, 107, 101, 110, 61, 74, 87, 84, 50, 38, 105, 100, 61, 121>>
\* '/hub?id=x&access_token=BAD'
ResBadToken ==
    <<47, 104, 117, 98, 63, 105, 100, 61, 120, 38, 97, 99, 99, 101, 115, 115, 95, 116, 111, 107, 101, 110, 61, 66, 65, 68>>
\* '/hub?access_token=JWT1&foo=1'
ResNoIdKey ==
    <<47, 104, 117, 98, 63, 97, 99, 99, 101, 115, 115, 95, 116, 111, 107, 101, 110, 61, 74, 87, 84, 49, 38, 102, 111, 111, 61, 49>>

Resources ==
    {ResNoQuery, ResEmptyQuery, ResOnlyId, ResOnlyToken, ResU1, ResU2,
     ResBadToken, ResNoIdKey}

\* The resources of well-formed requests: a token of each user, and one
\* the verifier refuses.
HubResources == {ResU1, ResU2, ResBadToken}

\* 'JWT1'
JWT1 ==
    <<74, 87, 84, 49>>
\* 'JWT2'
JWT2 ==
    <<74, 87, 84, 50>>

\* The separators of the request resource: "?" and "&".
QMARK == 63
AMP == 38

\* Inbound message bodies.
\* '{"protocol":"messagepack","version":1}'
HandshakeJson ==
    <<123, 34, 112, 114, 111, 116, 111, 99, 111, 108, 34, 58, 34, 109, 101, 115, 115, 97, 103, 101, 112, 97, 99, 107, 34, 44, 34, 118, 101, 114, 115, 105, 111, 110, 34, 58, 49, 125>>
\* '{"protocol":"json","version":1}'
JsonProtoJson ==
    <<123, 34, 112, 114, 111, 116, 111, 99, 111, 108, 34, 58, 34, 106, 115, 111, 110, 34, 44, 34, 118, 101, 114, 115, 105, 111, 110, 34, 58, 49, 125>>
\* '{"protocol":"messagepack","version":2}'
JsonVersion2 ==
    <<123, 34, 112, 114, 111, 116, 111, 99, 111, 108, 34, 58, 34, 109, 101, 115, 115, 97, 103, 101, 112, 97, 99, 107, 34, 44, 34, 118, 101, 114, 115, 105, 111, 110, 34, 58, 50, 125>>
\* '[]'
JsonArray ==
    <<91, 93>>
\* 'hi'
NotJson ==
    <<104, 105>>
\* the two bytes of U+00E9
EAcute ==
    <<195, 169>>

\* ws::Message
Text(bytes) == [type |-> "Text", data |-> bytes]
Binary(bytes) == [type |-> "Binary", data |-> bytes]
NoMsg == [type |-> "None", data |-> <<>>]

RS == <<RECORD_SEPARATOR>>

Messages ==
    {Text(HandshakeJson \o RS), Text(HandshakeJson), Text(JsonProtoJson \o RS),
     Text(JsonVersion2 \o RS), Text(JsonArray \o RS), Text(NotJson \o RS),
     Text(<<>>), Text(NotJson \o EAcute), Binary(HandshakeJson \o RS)}

\* The messages with the three outcomes of on_message: the handshake is
\* acknowledged, another message is echoed, an empty text panics.
HubMessages == {Text(HandshakeJson \o RS), Text(NotJson \o RS), Text(<<>>)}

Tokens == {PING, 2}

\* Domain objects handed to the publish operations.
Date0 == [secs |-> 1700000000, nanos |-> 123456789]

UserRecs == {[uuid |-> u, updated_at |-> Date0] : u \in Users}

FolderRecs ==
    {[uuid |-> "f1", user_uuid |-> "u1", updated_at |-> Date0],
     [uuid |-> "f2", user_uuid |-> "u2", updated_at |-> Date0]}

CipherRecs ==
    {[uuid |-> "c1", user_uuid |-> "u1", organization_uuid |-> None, updated_at |-> Date0],
     [uuid |-> "c2", user_uuid |-> None, organization_uuid |-> "o1", updated_at |-> Date0]}

UserUpdateTypes == {SyncVault}
FolderUpdateTypes == {SyncFolderDelete, SyncFolderCreate, SyncFolderUpdate}
CipherUpdateTypes == {SyncCipherCreate}

\* The user_uuids lists a cipher publish is called with.
TargetLists == UNION {[1..n -> Users] : n \in 0..MaxTargets}

\* -------------------------------------------------------------- state
VARIABLES
    hstate,     \* per connection: where its WSHandler is in its life
                \*   "none"    not accepted yet
                \*   "made"    connection_made has built the handler
                \*   "open"    on_open returned Ok
                \*   "closing" a callback returned Err: the server closes it
                \*   "lost"    connection_lost has consumed the handler
    user_uuid,  \* per connection: WSHandler.user_uuid (None or a user)
    map,        \* WebSocketUsers.map: user -> Vec<Sender>; a user without
                \* an entry is outside its domain
    timers,     \* per connection: timeouts scheduled with token PING
    crashed,    \* the websocket thread has panicked
    nmsg,       \* per open connection: inbound messages answered so far
    pub,        \* the send_cipher_update call in progress, if any
    ev,         \* the last operation: its input, result and sends
    req,        \* the HTTP request being answered: its handler, its user,
                \* what the handler did in order, and its result
    wire        \* per connection: the frames handed to its Sender, numbered
                \* in that order (sent), those still on their way (q), and
                \* those its client has received (got)

vars == <<hstate, user_uuid, map, timers, crashed, nmsg, pub, ev, req, wire>>

\* The state of the notification hub.
hubvars == <<hstate, user_uuid, map, timers, crashed, nmsg, pub, ev, wire>>

\* Nothing was handed to the Sender of a connection.
NoWire == [sent |-> <<>>, q |-> <<>>, got |-> <<>>]

\* No request is being answered.
NoReq == [h |-> "none", user |-> None, log |-> <<>>, res |-> "none"]

\* No send_cipher_update call is in progress.
Idle ==
    [pc |-> "idle", ut |-> 0, arg |-> None, data |-> <<>>, user_uuids |-> <<>>,
     idx |-> 0, errs |-> 0]

\* No send_update call was part of the operation.
NoStep ==
    [user |-> None, entry |-> <<>>, fails |-> {}, sent |-> <<>>, res |-> "Ok",
     next |-> "continue"]

\* The record of a callback of the websocket thread: the connection, the
\* result, the input message and the messages handed to the sender.  For
\* on_message idx is the place of the message among those of its
\* connection, for on_timeout ut is the token.
Ev(op, c, res, msg, sent) ==
    [op |-> op, conn |-> c, res |-> res, msg |-> msg, sent |-> sent,
     ut |-> 0, arg |-> None, data |-> <<>>, user_uuids |-> <<>>, idx |-> 0,
     errs |-> 0, step |-> NoStep]

\* The record of a publish operation: res is "unit" when the call has
\* returned, "running" between two turns of its loop, "error" when it
\* ended in an error; step is the send_update call it just made; errs
\* counts the earlier send_update calls of this call that returned Err.
PubEv(op, res, ut, arg, data, user_uuids, idx, errs, step) ==
    [op |-> op, conn |-> 0, res |-> res, msg |-> NoMsg, sent |-> <<>>,
     ut |-> ut, arg |-> arg, data |-> data, user_uuids |-> user_uuids, idx |-> idx,
     errs |-> errs, step |-> step]

Init ==
    /\ hstate = [c \in Conns |-> "none"]
    /\ user_uuid = [c \in Conns |-> None]
    /\ map = [u \in {} |-> <<>>]
    /\ timers = [c \in Conns |-> 0]
    /\ crashed = FALSE
    /\ nmsg = [c \in Conns |-> 0]
    /\ pub = Idle
    /\ ev = Ev("init", 0, "ok", NoMsg, <<>>)
    /\ req = NoReq
    /\ wire = [c \in Conns |-> NoWire]

\* ------------------------------------------------------------ registry
\* CHashMap::get: the entry of a user, empty when it has none.
Entry(m, u) == IF u \in DOMAIN m THEN m[u] ELSE <<>>

\* upsert that only inserts: the push onto an entry that exists is lost.
upsert_push_lost(m, u, sender) ==
    IF u \in DOMAIN m THEN m
    ELSE m @@ (u :> <<sender>>)

\* upsert that also pushes the sender onto every other entry.
upsert_all_entries(m, u, sender) ==
    [v \in DOMAIN m \cup {u} |-> Append(Entry(m, v), sender)]

\* upsert as a plain insert: an entry that exists is replaced.
upsert_insert(m, u, sender) ==
    IF u \in DOMAIN m THEN [m EXCEPT ![u] = <<sender>>]
    ELSE m @@ (u :> <<sender>>)

\* CHashMap::upsert(user, || vec![sender], |v| v.push(sender))
upsert(m, u, sender) ==
    IF u \in DOMAIN m THEN [m EXCEPT ![u] = Append(@, sender)]
    ELSE m @@ (u :> <<sender>>)

\* connection_lost that leaves the entry as it is.
remove_sender_none(m, u, sender) == m

\* connection_lost that clears the whole entry of the user.
remove_sender_all(m, u, sender) ==
    IF u \in DOMAIN m THEN [m EXCEPT ![u] = <<>>]
    ELSE m

\* get_mut(user) and remove_item(sender) of connection_lost
remove_sender(m, u, sender) ==
    IF u \in DOMAIN m THEN [m EXCEPT ![u] = remove_item(@, sender)]
    ELSE m

\* ------------------------------------------------------- token verifier
\* auth::decode_jwt: the subject of a token it accepts, None for an error.
decode_jwt(access_token) ==
    IF access_token = JWT1 THEN "u1"
    ELSE IF access_token = JWT2 THEN "u2"
    ELSE None

\* ----------------------------------------------------- WSHandler::on_open
\* The split of the request resource: "panic" where the code unwraps a
\* missing query or slices or indexes out of range.
ParseQuery(path) ==
    LET parts == Split(path, QMARK) IN
    IF Len(parts) < 2 THEN [tag |-> "panic"]
    ELSE
    LET query_split == SortSeq(Split(parts[2], AMP), StrLess) IN
    IF ~(13 <= Len(query_split[1]) /\ IsCharBoundary(query_split[1], 13))
    THEN [tag |-> "panic"]
    ELSE IF Len(query_split) < 2 THEN [tag |-> "panic"]
    ELSE IF ~(3 <= Len(query_split[2]) /\ IsCharBoundary(query_split[2], 3))
    THEN [tag |-> "panic"]
    ELSE [tag |-> "ok",
          access_token |-> SliceFrom(query_split[1], 13),
          id |-> SliceFrom(query_split[2], 3)]

\* on_open with the ping scheduled before the token is verified.
on_open_timeout_first(path, timeout_ok) ==
    LET q == ParseQuery(path) IN
    IF q.tag = "panic"
    THEN [res |-> "panic", user_uuid |-> None, register |-> FALSE, timeout |-> FALSE]
    ELSE
    LET sub == decode_jwt(q.access_token) IN
    IF sub = None
    THEN [res |-> "err", user_uuid |-> None, register |-> FALSE, timeout |-> timeout_ok]
    ELSE [res |-> IF timeout_ok THEN "ok" ELSE "err",
          user_uuid |-> sub, register |-> TRUE, timeout |-> timeout_ok]

\* What on_open does for a resource: its result, the identity it stores,
\* whether it inserts the sender under it, and whether it schedules PING.
\* timeout_ok: whether self.out.timeout succeeds.
on_open(path, timeout_ok) ==
    LET q == ParseQuery(path) IN
    IF q.tag = "panic"
    THEN [res |-> "panic", user_uuid |-> None, register |-> FALSE, timeout |-> FALSE]
    ELSE
    LET sub == decode_jwt(q.access_token) IN
    IF sub = None
    THEN [res |-> "err", user_uuid |-> None, register |-> FALSE, timeout |-> FALSE]
    ELSE [res |-> IF timeout_ok THEN "ok" ELSE "err",
          user_uuid |-> sub, register |-> TRUE, timeout |-> timeout_ok]

\* -------------------------------------------------- WSHandler::on_message
\* serde_json::from_str::<InitialMessage>: the texts that deserialize, with
\* the fields they give; every other text is an error.
from_str(json) ==
    IF json = HandshakeJson THEN [ok |-> TRUE, protocol |-> "messagepack", version |-> 1]
    ELSE IF json = JsonProtoJson THEN [ok |-> TRUE, protocol |-> "json", version |-> 1]
    ELSE IF json = JsonVersion2 THEN [ok |-> TRUE, protocol |-> "messagepack", version |-> 2]
    ELSE [ok |-> FALSE, protocol |-> "", version |-> 0]

\* on_message parsing the whole text, its last character included.
on_message_whole_text(msg) ==
    IF msg.type = "Text"
    THEN
        LET parsed == from_str(msg.data)
        IN  IF parsed.ok /\ parsed.protocol = "messagepack" /\ parsed.version = 1
            THEN [res |-> "send", send |-> Binary(INITIAL_RESPONSE)]
            ELSE [res |-> "send", send |-> msg]
    ELSE [res |-> "send", send |-> msg]

\* What on_message hands to self.out.send, or a panic.
on_message(msg) ==
    IF msg.type = "Text"
    THEN
        LET text == msg.data IN
        IF Len(text) = 0 \/ ~IsCharBoundary(text, Len(text) - 1)
        THEN [res |-> "panic", send |-> NoMsg]
        ELSE
        LET json == SliceTo(text, Len(text) - 1)
            parsed == from_str(json)
        IN  IF parsed.ok /\ parsed.protocol = "messagepack" /\ parsed.version = 1
            THEN [res |-> "send", send |-> Binary(INITIAL_RESPONSE)]
            ELSE [res |-> "send", send |-> msg]
    ELSE [res |-> "send", send |-> msg]

\* -------------------------------------------------- WSHandler::on_timeout
\* on_timeout that sends the ping and schedules nothing.
on_timeout_no_rearm(event, send_ok, timeout_ok) ==
    IF event = PING
    THEN IF ~send_ok
         THEN [res |-> "err", send |-> <<Binary(create_ping)>>, timeout |-> FALSE]
         ELSE [res |-> "ok", send |-> <<Binary(create_ping)>>, timeout |-> FALSE]
    ELSE [res |-> "err", send |-> <<>>, timeout |-> FALSE]

on_timeout_any_token(event, send_ok, timeout_ok) ==
    IF ~send_ok
    THEN [res |-> "err", send |-> <<Binary(create_ping)>>, timeout |-> FALSE]
    ELSE [res |-> IF timeout_ok THEN "ok" ELSE "err",
          send |-> <<Binary(create_ping)>>, timeout |-> timeout_ok]

\* send_ok, timeout_ok: whether self.out.send and self.out.timeout succeed.
on_timeout(event, send_ok, timeout_ok) ==
    IF event = PING
    THEN IF ~send_ok
         THEN [res |-> "err", send |-> <<Binary(create_ping)>>, timeout |-> FALSE]
         ELSE [res |-> IF timeout_ok THEN "ok" ELSE "err",
               send |-> <<Binary(create_ping)>>, timeout |-> timeout_ok]
    ELSE [res |-> "err", send |-> <<>>, timeout |-> FALSE]

\* ----------------------------------------------- WSFactory::connection_lost
\* The unwrap of the handler's identity panics when it was never set.
connection_lost_drop_entry(m, handler_user_uuid, sender) ==
    IF handler_user_uuid = None
    THEN [res |-> "panic", map |-> m]
    ELSE [res |-> "ok",
          map |-> [v \in DOMAIN m |-> IF v = handler_user_uuid THEN <<>> ELSE m[v]]]

connection_lost(m, handler_user_uuid, sender) ==
    IF handler_user_uuid = None
    THEN [res |-> "panic", map |-> m]
    ELSE [res |-> "ok", map |-> remove_sender(m, handler_user_uuid, sender)]

\* ------------------------------------------------ WebSocketUsers::send_*
\* The loop of send_update over one entry: the senders the frame went to
\* and the Result.  fails: the senders whose send returns an error.
RECURSIVE SendLoop(_, _)
SendLoop(user, fails) ==
    IF user = <<>> THEN [sent |-> <<>>, res |-> "Ok"]
    ELSE IF Head(user) \in fails THEN [sent |-> <<>>, res |-> "Err"]
    ELSE LET rest == SendLoop(Tail(user), fails)
         IN  [sent |-> <<Head(user)>> \o rest.sent, res |-> rest.res]

\* send_update that reports a user without an entry as an error.
send_update_miss_err(m, uuid, fails) ==
    IF uuid \in DOMAIN m THEN SendLoop(m[uuid], fails)
    ELSE [sent |-> <<>>, res |-> "Err"]

\* send_update over every entry of the map instead of the user's.
send_update_every_entry(m, uuid, fails) ==
    LET all == SetToSeq(UNION {Range(m[u]) : u \in DOMAIN m}) IN SendLoop(all, fails)

send_update(m, uuid, fails) ==
    IF uuid \in DOMAIN m THEN SendLoop(m[uuid], fails)
    ELSE [sent |-> <<>>, res |-> "Ok"]

\* The Result of send_update handed on with ? instead of dropped.
ok_propagated(result) == IF result = "Err" THEN "return" ELSE "continue"

\* .ok() on the Result of send_update: the error is dropped and the caller
\* goes on.
ok(result) == "continue"

\* A send_update call that goes over the entry twice.
SendStep_twice(m, uuid, data, fails) ==
    LET r == send_update(m, uuid, fails)
        twice == r.sent \o r.sent
    IN  [user |-> uuid, entry |-> Entry(m, uuid), fails |-> fails,
         sent |-> [i \in 1..Len(twice) |-> [to |-> twice[i], data |-> data]],
         res |-> r.res, next |-> ok(r.res)]

\* One send_update call as the publish operations make it, with what it
\* found and did.
SendStep(m, uuid, data, fails) ==
    LET r == send_update(m, uuid, fails) IN
    [user |-> uuid, entry |-> Entry(m, uuid), fails |-> fails,
     sent |-> [i \in 1..Len(r.sent) |-> [to |-> r.sent[i], data |-> data]],
     res |-> r.res, next |-> ok(r.res)]

user_update_data(ut, user) ==
    create_update(
        << <<VStr("UserId"), VStr(user.uuid)>>,
           <<VStr("Date"), serialize_date(user.updated_at)>> >>,
        ut)

folder_update_data_date_key(ut, folder) ==
    create_update(
        << <<VStr("Id"), VStr(folder.uuid)>>,
           <<VStr("UserId"), VStr(folder.user_uuid)>>,
           <<VStr("Date"), serialize_date(folder.updated_at)>> >>,
        ut)

folder_update_data(ut, folder) ==
    create_update(
        << <<VStr("Id"), VStr(folder.uuid)>>,
           <<VStr("UserId"), VStr(folder.user_uuid)>>,
           <<VStr("RevisionDate"), serialize_date(folder.updated_at)>> >>,
        ut)

cipher_update_data_org_as_user(ut, cipher) ==
    create_update(
        << <<VStr("Id"), VStr(cipher.uuid)>>,
           <<VStr("UserId"), convert_option(cipher.organization_uuid)>>,
           <<VStr("OrganizationId"), convert_option(cipher.organization_uuid)>>,
           <<VStr("CollectionIds"), VNil>>,
           <<VStr("RevisionDate"), serialize_date(cipher.updated_at)>> >>,
        ut)

cipher_update_data(ut, cipher) ==
    create_update(
        << <<VStr("Id"), VStr(cipher.uuid)>>,
           <<VStr("UserId"), convert_option(cipher.user_uuid)>>,
           <<VStr("OrganizationId"), convert_option(cipher.organization_uuid)>>,
           <<VStr("CollectionIds"), VNil>>,
           <<VStr("RevisionDate"), serialize_date(cipher.updated_at)>> >>,
        ut)

\* The frames of the inputs above, built once.
UserFrames == [ut \in UserUpdateTypes, user \in UserRecs |-> user_update_data(ut, user)]

FolderFrames == [ut \in FolderUpdateTypes, folder \in FolderRecs |-> folder_update_data(ut, folder)]

CipherFrames == [ut \in CipherUpdateTypes, cipher \in CipherRecs |-> cipher_update_data(ut, cipher)]

\* The user a send_user_update / send_folder_update looks up.
user_update_target(user) == user.uuid

folder_update_target(folder) == folder.user_uuid

\* The sends that can fail: any of the entry's while the server runs, all
\* of them once its thread is gone.
FailSets(m, uuid) ==
    IF crashed THEN {Range(Entry(m, uuid))}
    ELSE SUBSET Range(Entry(m, uuid))

\* How a publish call ends after a step: "unit" when it returns, "error"
\* when the step's error was not dropped.
CallResult(step) == IF step.next = "continue" THEN "unit" ELSE "error"

\* ------------------------------------------------------------ actions
ConnectionMade(c) ==
    /\ ~crashed
    /\ hstate[c] = "none"
    /\ \A d \in Conns : d < c => hstate[d] # "none"
    /\ hstate' = [hstate EXCEPT ![c] = "made"]
    /\ user_uuid' = [user_uuid EXCEPT ![c] = None]
    /\ ev' = Ev("connection_made", c, "ok", NoMsg, <<>>)
    /\ UNCHANGED <<map, timers, crashed, nmsg, pub, req, wire>>

OnOpen(c, path, timeout_ok) ==
    /\ ~crashed
    /\ hstate[c] = "made"
    /\ LET r == on_open(path, timeout_ok) IN
       /\ crashed' = (r.res = "panic")
       /\ hstate' = [hstate EXCEPT ![c] =
              IF r.res = "ok" THEN "open"
              ELSE IF r.res = "err" THEN "closing" ELSE @]
       /\ user_uuid' = [user_uuid EXCEPT ![c] = r.user_uuid]
       /\ map' = IF r.register THEN upsert(map, r.user_uuid, c) ELSE map
       /\ timers' = [timers EXCEPT ![c] = IF r.timeout THEN @ + 1 ELSE @]
       /\ ev' = Ev("on_open", c, r.res, [type |-> "Resource", data |-> path], <<>>)
    /\ UNCHANGED <<nmsg, pub, req, wire>>

OnMessage(c, msg, send_ok) ==
    /\ ~crashed
    /\ hstate[c] = "open"
    /\ nmsg[c] < MaxMsgs
    /\ LET r == on_message(msg)
           res == IF r.res = "panic" THEN "panic"
                  ELSE IF send_ok THEN "ok" ELSE "err"
       IN
       /\ crashed' = (res = "panic")
       /\ hstate' = [hstate EXCEPT ![c] = IF res = "err" THEN "closing" ELSE @]
       /\ nmsg' = [nmsg EXCEPT ![c] = IF res = "ok" THEN @ + 1 ELSE 0]
       /\ ev' = [Ev("on_message", c, res, msg,
                    IF res = "ok" THEN <<[to |-> c, msg |-> r.send]>> ELSE <<>>)
                    EXCEPT !.idx = nmsg[c] + 1]
    /\ UNCHANGED <<user_uuid, map, timers, pub, req, wire>>

on_timeout_call(c, event, send_ok, timeout_ok) ==
    /\ ~crashed
    /\ hstate[c] = "open"
    /\ event = PING => timers[c] > 0
    /\ LET r == on_timeout(event, send_ok, timeout_ok) IN
       /\ hstate' = [hstate EXCEPT ![c] = IF r.res = "err" THEN "closing" ELSE @]
       /\ timers' = [timers EXCEPT ![c] =
              (IF event = PING THEN @ - 1 ELSE @) + (IF r.timeout THEN 1 ELSE 0)]
       /\ ev' = [Ev("on_timeout", c, r.res, NoMsg,
                    IF send_ok THEN [i \in 1..Len(r.send) |-> [to |-> c, msg |-> r.send[i]]]
                    ELSE <<>>) EXCEPT !.ut = event]
       /\ nmsg' = [nmsg EXCEPT ![c] = IF r.res = "err" THEN 0 ELSE @]
    /\ UNCHANGED <<user_uuid, map, crashed, pub, req>>

OnTimeout(c, event, send_ok, timeout_ok) ==
    /\ on_timeout_call(c, event, send_ok, timeout_ok)
    /\ UNCHANGED wire

ConnectionLost(c) ==
    /\ ~crashed
    /\ hstate[c] \in {"made", "open", "closing"}
    /\ LET r == connection_lost(map, user_uuid[c], c) IN
       /\ crashed' = (r.res = "panic")
       /\ map' = r.map
       /\ hstate' = [hstate EXCEPT ![c] = IF r.res = "ok" THEN "lost" ELSE @]
       /\ timers' = [timers EXCEPT ![c] = IF r.res = "ok" THEN 0 ELSE @]
       /\ ev' = Ev("connection_lost", c, r.res, NoMsg, <<>>)
       /\ nmsg' = [nmsg EXCEPT ![c] = 0]
    /\ UNCHANGED <<user_uuid, pub, req, wire>>

SendUserUpdate(ut, user) ==
    /\ pub.pc = "idle"
    /\ \E fails \in FailSets(map, user_update_target(user)) :
         LET data == UserFrames[ut, user]
             step == SendStep(map, user_update_target(user), data, fails)
         IN  ev' = PubEv("send_user_update", CallResult(step), ut, user, data, <<>>, 0, 0, step)
    /\ UNCHANGED <<hstate, user_uuid, map, timers, crashed, nmsg, pub, req, wire>>

send_folder_update_call(ut, folder) ==
    /\ pub.pc = "idle"
    /\ \E fails \in FailSets(map, folder_update_target(folder)) :
         LET data == FolderFrames[ut, folder]
             step == SendStep(map, folder_update_target(folder), data, fails)
         IN  ev' = PubEv("send_folder_update", CallResult(step), ut, folder, data, <<>>, 0, 0, step)
    /\ UNCHANGED <<hstate, user_uuid, map, timers, crashed, nmsg, pub, req>>

SendFolderUpdate(ut, folder) ==
    /\ send_folder_update_call(ut, folder)
    /\ UNCHANGED wire

\* send_cipher_update up to its loop: the frame is built once.
SendCipherUpdateBegin(ut, cipher, user_uuids) ==
    /\ pub.pc = "idle"
    /\ LET data == CipherFrames[ut, cipher] IN
       IF user_uuids = <<>>
       THEN /\ pub' = Idle
            /\ ev' = PubEv("send_cipher_update", "unit", ut, cipher, data, user_uuids, 0, 0, NoStep)
       ELSE /\ pub' = [pc |-> "sending", ut |-> ut, arg |-> cipher, data |-> data,
                       user_uuids |-> user_uuids, idx |-> 1, errs |-> 0]
            /\ ev' = PubEv("send_cipher_update", "running", ut, cipher, data, user_uuids, 0, 0, NoStep)
    /\ UNCHANGED <<hstate, user_uuid, map, timers, crashed, nmsg, req, wire>>

\* One turn of the loop of send_cipher_update; the call returns after the
\* last one.
SendCipherUpdateStep ==
    /\ pub.pc = "sending"
    /\ \E fails \in FailSets(map, pub.user_uuids[pub.idx]) :
         LET step == SendStep(map, pub.user_uuids[pub.idx], pub.data, fails)
             errs == pub.errs + (IF step.res = "Err" THEN 1 ELSE 0)
         IN  IF step.next = "continue" /\ pub.idx < Len(pub.user_uuids)
             THEN /\ pub' = [pub EXCEPT !.idx = @ + 1, !.errs = errs]
                  /\ ev' = PubEv("send_cipher_update", "running", pub.ut, pub.arg, pub.data,
                                 pub.user_uuids, pub.idx, pub.errs, step)
             ELSE /\ pub' = Idle
                  /\ ev' = PubEv("send_cipher_update", CallResult(step), pub.ut, pub.arg,
                                 pub.data, pub.user_uuids, pub.idx, pub.errs, step)
    /\ UNCHANGED <<hstate, user_uuid, map, timers, crashed, nmsg, req, wire>>

\* The hub: connections come and go while the request threads publish.
Next ==
    \/ \E c \in Conns : ConnectionMade(c)
    \/ \E c \in Conns, path \in HubResources, timeout_ok \in BOOLEAN : OnOpen(c, path, timeout_ok)
    \/ \E c \in Conns : ConnectionLost(c)
    \/ \E ut \in UserUpdateTypes, user \in UserRecs : SendUserUpdate(ut, user)
    \/ \E ut \in FolderUpdateTypes, folder \in FolderRecs : SendFolderUpdate(ut, folder)
    \/ \E ut \in CipherUpdateTypes, cipher \in CipherRecs, user_uuids \in TargetLists :
           SendCipherUpdateBegin(ut, cipher, user_uuids)
    \/ SendCipherUpdateStep

Spec == Init /\ [][Next]_vars

\* The connection handler: every callback of the websocket thread, with
\* every request resource and inbound message.
NextConn ==
    \/ \E c \in Conns : ConnectionMade(c)
    \/ \E c \in Conns, path \in Resources, timeout_ok \in BOOLEAN : OnOpen(c, path, timeout_ok)
    \/ \E c \in Conns, msg \in Messages, send_ok \in BOOLEAN : OnMessage(c, msg, send_ok)
    \/ \E c \in Conns, event \in Tokens, send_ok \in BOOLEAN, timeout_ok \in BOOLEAN :
           OnTimeout(c, event, send_ok, timeout_ok)
    \/ \E c \in Conns : ConnectionLost(c)

SpecConn == Init /\ [][NextConn]_vars

\* The live hub: timers fire and connections close while the request
\* threads publish.
NextLive ==
    \/ \E c \in Conns : ConnectionMade(c)
    \/ \E c \in Conns, path \in HubResources, timeout_ok \in BOOLEAN : OnOpen(c, path, timeout_ok)
    \/ \E c \in Conns, event \in Tokens, send_ok \in BOOLEAN, timeout_ok \in BOOLEAN :
           OnTimeout(c, event, send_ok, timeout_ok)
    \/ \E c \in Conns : ConnectionLost(c)
    \/ \E ut \in UserUpdateTypes, user \in UserRecs : SendUserUpdate(ut, user)
    \/ \E ut \in FolderUpdateTypes, folder \in FolderRecs : SendFolderUpdate(ut, folder)

SpecLive == Init /\ [][NextLive]_vars

\* ------------------------------------------------ the lock of an entry
\* send_update reads the entry of a user through the guard that map.get
\* returns, and holds it to the end of its loop; upsert in on_open and
\* get_mut in connection_lost need the same entry for writing and wait
\* while a publisher holds that guard.  pub.pc is "holding" from the get to
\* the end of the loop.  A send does not wait for the connection.
Guarded(u) == pub.pc = "holding" /\ pub.user_uuids[pub.idx] = u

\* map.get in send_update: the publisher has the guard of the entry.
GetEntry ==
    /\ pub.pc = "sending"
    /\ pub' = [pub EXCEPT !.pc = "holding"]
    /\ ev' = PubEv("get", "running", pub.ut, pub.arg, pub.data, pub.user_uuids, pub.idx,
                   pub.errs, NoStep)
    /\ UNCHANGED <<hstate, user_uuid, map, timers, crashed, nmsg, req, wire>>

\* The loop of send_update under the guard, and its end: the guard is
\* dropped and send_cipher_update goes to its next target or returns.
SendUnderGuard ==
    /\ pub.pc = "holding"
    /\ \E fails \in FailSets(map, pub.user_uuids[pub.idx]) :
         LET step == SendStep(map, pub.user_uuids[pub.idx], pub.data, fails)
             errs == pub.errs + (IF step.res = "Err" THEN 1 ELSE 0)
         IN  IF step.next = "continue" /\ pub.idx < Len(pub.user_uuids)
             THEN /\ pub' = [pub EXCEPT !.pc = "sending", !.idx = @ + 1, !.errs = errs]
                  /\ ev' = PubEv("send_cipher_update", "running", pub.ut, pub.arg, pub.data,
                                 pub.user_uuids, pub.idx, pub.errs, step)
             ELSE /\ pub' = Idle
                  /\ ev' = PubEv("send_cipher_update", CallResult(step), pub.ut, pub.arg,
                                 pub.data, pub.user_uuids, pub.idx, pub.errs, step)
    /\ UNCHANGED <<hstate, user_uuid, map, timers, crashed, nmsg, req, wire>>

\* on_open once the entry it writes is free.
WriteOnOpen(c, path, timeout_ok) ==
    /\ on_open(path, timeout_ok).register => ~Guarded(on_open(path, timeout_ok).user_uuid)
    /\ OnOpen(c, path, timeout_ok)

\* connection_lost once the entry it writes is free.
WriteConnectionLost(c) ==
    /\ user_uuid[c] # None => ~Guarded(user_uuid[c])
    /\ ConnectionLost(c)

NextLock ==
    \/ \E c \in Conns : ConnectionMade(c)
    \/ \E c \in Conns, path \in HubResources, timeout_ok \in BOOLEAN :
           WriteOnOpen(c, path, timeout_ok)
    \/ \E c \in Conns : WriteConnectionLost(c)
    \/ \E ut \in CipherUpdateTypes, cipher \in CipherRecs, user_uuids \in TargetLists :
           SendCipherUpdateBegin(ut, cipher, user_uuids)
    \/ GetEntry
    \/ SendUnderGuard

\* A publisher is a thread of its own: it gets the guard when it asks for
\* it and, holding it, runs its loop to the end.
SpecLock == Init /\ [][NextLock]_vars /\ WF_vars(GetEntry) /\ WF_vars(SendUnderGuard)

\* ------------------------------------------------------- the way out
\* A frame goes out through the Sender of its connection: send puts it
\* behind those already handed to that Sender, and the event loop of the
\* server writes them to the client from the front.
MaxFrames == 2      \* frames handed to one connection

enqueue_front(q, item) == <<item>> \o q

enqueue(q, item) == Append(q, item)

\* The sends of a step, each numbered in the order of its connection.
RECURSIVE Issue(_, _)
Issue(w, sends) ==
    IF sends = <<>> THEN w
    ELSE LET to == Head(sends).to
             item == [n |-> Len(w[to].sent) + 1, data |-> Head(sends).data]
         IN  Issue([w EXCEPT ![to] = [sent |-> Append(@.sent, item),
                                      q |-> enqueue(@.q, item),
                                      got |-> @.got]],
                   Tail(sends))

\* on_timeout, with the ping it sends on its way.
WireOnTimeout(c, event, send_ok, timeout_ok) ==
    /\ Len(wire[c].sent) < MaxFrames
    /\ on_timeout_call(c, event, send_ok, timeout_ok)
    /\ wire' = Issue(wire, [i \in 1..Len(ev'.sent) |->
                               [to |-> ev'.sent[i].to, data |-> ev'.sent[i].msg.data]])

\* send_folder_update, with the frames it sends on their way.
WireSendFolderUpdate(ut, folder) ==
    /\ \A c \in Range(Entry(map, folder_update_target(folder))) :
          Len(wire[c].sent) < MaxFrames
    /\ send_folder_update_call(ut, folder)
    /\ wire' = Issue(wire, ev'.step.sent)

\* The event loop writes the frame at the front to the client.
Deliver(c) ==
    /\ ~crashed
    /\ hstate[c] \in {"open", "closing"}
    /\ wire[c].q # <<>>
    /\ wire' = [wire EXCEPT ![c] = [sent |-> @.sent, q |-> Tail(@.q),
                                    got |-> Append(@.got, Head(@.q))]]
    /\ UNCHANGED <<hstate, user_uuid, map, timers, crashed, nmsg, pub, ev, req>>

NextWire ==
    \/ \E c \in Conns : ConnectionMade(c)
    \/ \E c \in Conns, path \in HubResources, timeout_ok \in BOOLEAN : OnOpen(c, path, timeout_ok)
    \/ \E c \in Conns, event \in Tokens, send_ok \in BOOLEAN, timeout_ok \in BOOLEAN :
           WireOnTimeout(c, event, send_ok, timeout_ok)
    \/ \E c \in Conns : ConnectionLost(c)
    \/ \E folder \in FolderRecs : WireSendFolderUpdate(SyncFolderUpdate, folder)
    \/ \E c \in Conns : Deliver(c)

SpecWire == Init /\ [][NextWire]_vars

\* The whole hub: every callback of the websocket thread and every publish
\* operation, on the resources that register.
NextHub ==
    \/ \E c \in Conns : ConnectionMade(c)
    \/ \E c \in Conns, path \in HubResources, timeout_ok \in BOOLEAN : OnOpen(c, path, timeout_ok)
    \/ \E c \in Conns, msg \in HubMessages, send_ok \in BOOLEAN : OnMessage(c, msg, send_ok)
    \/ \E c \in Conns, event \in Tokens, send_ok \in BOOLEAN, timeout_ok \in BOOLEAN :
           OnTimeout(c, event, send_ok, timeout_ok)
    \/ \E c \in Conns : ConnectionLost(c)
    \/ \E ut \in UserUpdateTypes, user \in UserRecs : SendUserUpdate(ut, user)
    \/ \E ut \in FolderUpdateTypes, folder \in FolderRecs : SendFolderUpdate(ut, folder)
    \/ \E ut \in CipherUpdateTypes, cipher \in CipherRecs, user_uuids \in TargetLists :
           SendCipherUpdateBegin(ut, cipher, user_uuids)
    \/ SendCipherUpdateStep

SpecHub == Init /\ [][NextHub]_vars

\* --------------------------------------------------- request handlers
\* The handlers of src/api/core/folders.rs and ciphers.rs that publish.
\* The database and the access rules are outside this model: what a lookup
\* finds, whether a check passes and whether a delete succeeds are inputs.
\* A handler is the list of what it does, in order, and its result.
MaxIds == 2         \* ids in the body of a request on selected ciphers

Event(kind, obj, uuid, result) ==
    [kind |-> kind, obj |-> obj, uuid |-> uuid, of |-> None, ok |-> result,
     new |-> FALSE, ut |-> 0, user_uuids |-> <<>>]

\* X::find_by_uuid and its match on the Option
Find(obj, uuid, result) == Event("find", obj, uuid, result)

\* an ownership, access or password test
Check(what, uuid, result) == Event("check", what, uuid, result)

\* x.save(&conn); new: the object was built by X::new in this request
Save(obj, uuid, new) == [Event("save", obj, uuid, TRUE) EXCEPT !.new = new]

\* x.delete(&conn) and its Result; of: the cipher of an attachment
Delete(obj, uuid, of, result) == [Event("delete", obj, uuid, result) EXCEPT !.of = of]

\* cipher.move_to_folder(..) and its Result
MoveToFolder(uuid, result) == Event("move_to_folder", "cipher", uuid, result)

\* ws.send_folder_update(ut, &folder) / ws.send_cipher_update(ut, &cipher, &users)
Publish(obj, uuid, ut, users) ==
    [Event("publish", obj, uuid, TRUE) EXCEPT !.ut = ut, !.user_uuids = users]

Failed(log) == [log |-> log, res |-> "err"]

Returned(log) == [log |-> log, res |-> "ok"]

\* r, and when it returned Ok what rest does after it (the ? operator).
Then(r, rest) ==
    IF r.res = "err" THEN r ELSE [log |-> r.log \o rest.log, res |-> rest.res]

\* folder: what Folder::new built.
post_folders(user, folder) ==
    Returned(<<Save("folder", folder.uuid, TRUE),
               Publish("folder", folder.uuid, SyncFolderCreate, <<>>)>>)

\* put_folder with the notification sent before the save.
put_folder_publish_first(user, uuid, found, folder) ==
    IF ~found THEN Failed(<<Find("folder", uuid, FALSE)>>)
    ELSE IF folder.user_uuid # user
    THEN Failed(<<Find("folder", uuid, TRUE), Check("owner", uuid, FALSE)>>)
    ELSE Returned(<<Find("folder", uuid, TRUE), Check("owner", uuid, TRUE),
                    Publish("folder", uuid, SyncFolderUpdate, <<>>),
                    Save("folder", uuid, FALSE)>>)

\* found, folder: what Folder::find_by_uuid returns.
put_folder(user, uuid, found, folder) ==
    IF ~found THEN Failed(<<Find("folder", uuid, FALSE)>>)
    ELSE IF folder.user_uuid # user
    THEN Failed(<<Find("folder", uuid, TRUE), Check("owner", uuid, FALSE)>>)
    ELSE Returned(<<Find("folder", uuid, TRUE), Check("owner", uuid, TRUE),
                    Save("folder", uuid, FALSE),
                    Publish("folder", uuid, SyncFolderUpdate, <<>>)>>)

delete_folder(user, uuid, found, folder, delete_ok) ==
    IF ~found THEN Failed(<<Find("folder", uuid, FALSE)>>)
    ELSE IF folder.user_uuid # user
    THEN Failed(<<Find("folder", uuid, TRUE), Check("owner", uuid, FALSE)>>)
    ELSE IF delete_ok
    THEN Returned(<<Find("folder", uuid, TRUE), Check("owner", uuid, TRUE),
                    Delete("folder", uuid, None, TRUE),
                    Publish("folder", uuid, SyncFolderDelete, <<>>)>>)
    ELSE Failed(<<Find("folder", uuid, TRUE), Check("owner", uuid, TRUE),
                  Delete("folder", uuid, None, FALSE)>>)

\* data: the fields of CipherData the function branches on, with what the
\* lookups it makes return:
\*   org          data.OrganizationId is Some
\*   org_user     UserOrganization::find_by_user_and_org finds the user
\*   org_access   has_full_access() || is_write_accessible_to_user(..)
\*   folder_id    data.FolderId is Some
\*   folder       "missing", "foreign" or "own": what find_by_uuid returns
\*   type         "ok", "invalid" (no such type) or "missing" (no data)
\*   users        what cipher.update_users_revision returns
\*   move_ok      move_to_folder returns Ok
update_cipher_from_data(cipher, data, user, shared_to_collection, ut) ==
    LET orgLog ==
            IF ~data.org THEN <<>>
            ELSE IF ~data.org_user THEN <<Find("org_user", "o1", FALSE)>>
            ELSE <<Find("org_user", "o1", TRUE),
                   Check("org_access", cipher, shared_to_collection \/ data.org_access)>>
        orgOk == \A i \in 1..Len(orgLog) : orgLog[i].ok
        folderLog ==
            IF ~data.folder_id THEN <<>>
            ELSE IF data.folder = "missing" THEN <<Find("folder", "f1", FALSE)>>
            ELSE <<Find("folder", "f1", TRUE), Check("owner", "f1", data.folder = "own")>>
        folderOk == \A i \in 1..Len(folderLog) : folderLog[i].ok
    IN  IF ~orgOk THEN Failed(orgLog)
        ELSE IF ~folderOk THEN Failed(orgLog \o folderLog)
        ELSE IF data.type # "ok"
        THEN Failed(orgLog \o folderLog \o <<Check("type", cipher, FALSE)>>)
        ELSE LET done == orgLog \o folderLog \o
                         <<Check("type", cipher, TRUE),
                           Save("cipher", cipher, ut = SyncCipherCreate),
                           Publish("cipher", cipher, ut, data.users),
                           MoveToFolder(cipher, data.move_ok)>>
             IN  IF data.move_ok THEN Returned(done) ELSE Failed(done)

\* cipher: the uuid of what Cipher::new built.
post_ciphers(user, cipher, data) ==
    update_cipher_from_data(cipher, data, user, FALSE, SyncCipherCreate)

\* found, access: what find_by_uuid and is_write_accessible_to_user return.
put_cipher(user, uuid, found, access, data) ==
    IF ~found THEN Failed(<<Find("cipher", uuid, FALSE)>>)
    ELSE IF ~access
    THEN Failed(<<Find("cipher", uuid, TRUE), Check("access", uuid, FALSE)>>)
    ELSE Then(Returned(<<Find("cipher", uuid, TRUE), Check("access", uuid, TRUE)>>),
              update_cipher_from_data(uuid, data, user, FALSE, SyncCipherUpdate))

\* item: an id of the request with what the database answers for it:
\*   uuid, found, access, ok (the delete or the move succeeds), users
delete_cipher_by_uuid(user, item) ==
    IF ~item.found THEN Failed(<<Find("cipher", item.uuid, FALSE)>>)
    ELSE IF ~item.access
    THEN Failed(<<Find("cipher", item.uuid, TRUE), Check("access", item.uuid, FALSE)>>)
    ELSE IF item.ok
    THEN Returned(<<Find("cipher", item.uuid, TRUE), Check("access", item.uuid, TRUE),
                    Delete("cipher", item.uuid, None, TRUE),
                    Publish("cipher", item.uuid, SyncCipherDelete, item.users)>>)
    ELSE Failed(<<Find("cipher", item.uuid, TRUE), Check("access", item.uuid, TRUE),
                  Delete("cipher", item.uuid, None, FALSE)>>)

\* The loop over the ids: the first error is returned.
RECURSIVE delete_cipher_selected(_, _)
delete_cipher_selected(user, items) ==
    IF items = <<>> THEN Returned(<<>>)
    ELSE Then(delete_cipher_by_uuid(user, Head(items)),
              delete_cipher_selected(user, Tail(items)))

\* One turn of the loop of move_cipher_selected.
move_cipher(user, item) ==
    IF ~item.found THEN Failed(<<Find("cipher", item.uuid, FALSE)>>)
    ELSE IF ~item.access
    THEN Failed(<<Find("cipher", item.uuid, TRUE), Check("access", item.uuid, FALSE)>>)
    ELSE IF ~item.ok
    THEN Failed(<<Find("cipher", item.uuid, TRUE), Check("access", item.uuid, TRUE),
                  MoveToFolder(item.uuid, FALSE)>>)
    ELSE Returned(<<Find("cipher", item.uuid, TRUE), Check("access", item.uuid, TRUE),
                    MoveToFolder(item.uuid, TRUE),
                    Save("cipher", item.uuid, FALSE),
                    Publish("cipher", item.uuid, SyncCipherUpdate, item.users)>>)

RECURSIVE move_ciphers(_, _)
move_ciphers(user, items) ==
    IF items = <<>> THEN Returned(<<>>)
    ELSE Then(move_cipher(user, Head(items)), move_ciphers(user, Tail(items)))

\* folder: "none" (no FolderId), "missing", "foreign" or "own".
move_cipher_selected(user, folder, items) ==
    IF folder = "none" THEN move_ciphers(user, items)
    ELSE IF folder = "missing" THEN Failed(<<Find("folder", "f1", FALSE)>>)
    ELSE IF folder = "foreign"
    THEN Failed(<<Find("folder", "f1", TRUE), Check("owner", "f1", FALSE)>>)
    ELSE Then(Returned(<<Find("folder", "f1", TRUE), Check("owner", "f1", TRUE)>>),
              move_ciphers(user, items))

\* The two loops of delete_all, over what find_owned_by_user and
\* find_by_user return.
RECURSIVE purge_ciphers(_)
purge_ciphers(items) ==
    IF items = <<>> THEN Returned(<<>>)
    ELSE LET item == Head(items) IN
         IF ~item.ok THEN Failed(<<Delete("cipher", item.uuid, None, FALSE)>>)
         ELSE Then(Returned(<<Delete("cipher", item.uuid, None, TRUE),
                              Publish("cipher", item.uuid, SyncCipherDelete, item.users)>>),
                   purge_ciphers(Tail(items)))

RECURSIVE purge_folders(_)
purge_folders(items) ==
    IF items = <<>> THEN Returned(<<>>)
    ELSE LET f == Head(items) IN
         IF ~f.ok THEN Failed(<<Delete("folder", f.uuid, None, FALSE)>>)
         ELSE Then(Returned(<<Delete("folder", f.uuid, None, TRUE),
                              Publish("folder", f.uuid, SyncFolderCreate, <<>>)>>),
                   purge_folders(Tail(items)))

delete_all(user, password_ok, ciphers, folders) ==
    IF ~password_ok THEN Failed(<<Check("password", user, FALSE)>>)
    ELSE Then(Returned(<<Check("password", user, TRUE)>>),
              Then(purge_ciphers(ciphers), purge_folders(folders)))

\* att: "missing", "other" (of another cipher) or "own"; item: the cipher.
delete_cipher_attachment_by_id(user, att, item) ==
    IF att = "missing" THEN Failed(<<Find("attachment", "a1", FALSE)>>)
    ELSE IF att = "other"
    THEN Failed(<<Find("attachment", "a1", TRUE), Check("attachment_of", item.uuid, FALSE)>>)
    ELSE LET pre == <<Find("attachment", "a1", TRUE), Check("attachment_of", item.uuid, TRUE)>> IN
         IF ~item.found THEN Failed(pre \o <<Find("cipher", item.uuid, FALSE)>>)
         ELSE IF ~item.access
         THEN Failed(pre \o <<Find("cipher", item.uuid, TRUE), Check("access", item.uuid, FALSE)>>)
         ELSE IF item.ok
         THEN Returned(pre \o <<Find("cipher", item.uuid, TRUE), Check("access", item.uuid, TRUE),
                                Delete("attachment", "a1", item.uuid, TRUE),
                                Publish("cipher", item.uuid, SyncCipherDelete, item.users)>>)
         ELSE Failed(pre \o <<Find("cipher", item.uuid, TRUE), Check("access", item.uuid, TRUE),
                              Delete("attachment", "a1", item.uuid, FALSE)>>)

\* Inputs of the handlers.  A field the handler does not reach keeps one
\* value.
CipherIds == {"c1", "c2"}

RevisionLists == {<<"u1">>, <<"u1", "u2">>}

CipherItems ==
    {it \in [uuid : CipherIds, found : BOOLEAN, access : BOOLEAN, ok : BOOLEAN,
             users : RevisionLists] :
        /\ ~it.found => ~it.access
        /\ ~it.access => ~it.ok
        /\ ~it.ok => it.users = <<"u1">>}

ItemLists == UNION {[1..n -> CipherItems] : n \in 0..MaxIds}

\* What find_owned_by_user can return: ciphers that exist, each once.
OwnedItems == {it \in CipherItems : it.found /\ it.access}

OwnedLists ==
    {l \in UNION {[1..n -> OwnedItems] : n \in 0..2} :
        \A i \in 1..Len(l), j \in 1..Len(l) : i # j => l[i].uuid # l[j].uuid}

\* What find_by_user can return for the user, with the result of the delete.
FolderLists(user) ==
    LET own == {f \in FolderRecs : f.user_uuid = user}
        items == {[uuid |-> f.uuid, ok |-> b] : f \in own, b \in BOOLEAN}
    IN  {<<>>} \cup {<<it>> : it \in items}

CipherDataCases ==
    {d \in [org : BOOLEAN, org_user : BOOLEAN, org_access : BOOLEAN, folder_id : BOOLEAN,
            folder : {"missing", "foreign", "own"}, type : {"ok", "invalid", "missing"},
            users : RevisionLists, move_ok : BOOLEAN] :
        /\ ~d.org => (~d.org_user /\ ~d.org_access)
        /\ ~d.org_user => ~d.org_access
        /\ ~d.folder_id => d.folder = "own"
        /\ (d.type # "ok" \/ (d.org /\ ~d.org_access) \/ d.folder # "own") =>
              (d.users = <<"u1">> /\ d.move_ok)}

Request(h, user, r) == [h |-> h, user |-> user, log |-> r.log, res |-> r.res]

\* ------------------------------------------------------ request actions
PostFolders(user, folder) ==
    /\ req = NoReq
    /\ folder.user_uuid = user
    /\ req' = Request("post_folders", user, post_folders(user, folder))
    /\ UNCHANGED hubvars

PutFolder(user, uuid, found, folder) ==
    /\ req = NoReq
    /\ folder.uuid = uuid
    /\ req' = Request("put_folder", user, put_folder(user, uuid, found, folder))
    /\ UNCHANGED hubvars

DeleteFolder(user, uuid, found, folder, delete_ok) ==
    /\ req = NoReq
    /\ folder.uuid = uuid
    /\ req' = Request("delete_folder", user, delete_folder(user, uuid, found, folder, delete_ok))
    /\ UNCHANGED hubvars

PostCiphers(user, cipher, data) ==
    /\ req = NoReq
    /\ req' = Request("post_ciphers", user, post_ciphers(user, cipher, data))
    /\ UNCHANGED hubvars

PutCipher(user, uuid, found, access, data) ==
    /\ req = NoReq
    /\ req' = Request("put_cipher", user, put_cipher(user, uuid, found, access, data))
    /\ UNCHANGED hubvars

DeleteCipher(user, item) ==
    /\ req = NoReq
    /\ req' = Request("delete_cipher", user, delete_cipher_by_uuid(user, item))
    /\ UNCHANGED hubvars

DeleteCipherSelected(user, items) ==
    /\ req = NoReq
    /\ req' = Request("delete_cipher_selected", user, delete_cipher_selected(user, items))
    /\ UNCHANGED hubvars

MoveCipherSelected(user, folder, items) ==
    /\ req = NoReq
    /\ req' = Request("move_cipher_selected", user, move_cipher_selected(user, folder, items))
    /\ UNCHANGED hubvars

DeleteAll(user, password_ok, ciphers, folders) ==
    /\ req = NoReq
    /\ req' = Request("delete_all", user, delete_all(user, password_ok, ciphers, folders))
    /\ UNCHANGED hubvars

DeleteAttachment(user, att, item) ==
    /\ req = NoReq
    /\ req' = Request("delete_attachment", user, delete_cipher_attachment_by_id(user, att, item))
    /\ UNCHANGED hubvars

\* The response is sent; the next request can be answered.
Respond ==
    /\ req # NoReq
    /\ req' = NoReq
    /\ UNCHANGED hubvars

NextReq ==
    \/ \E user \in Users, folder \in FolderRecs : PostFolders(user, folder)
    \/ \E user \in Users, folder \in FolderRecs, found \in BOOLEAN :
           PutFolder(user, folder.uuid, found, folder)
    \/ \E user \in Users, folder \in FolderRecs, found \in BOOLEAN, delete_ok \in BOOLEAN :
           DeleteFolder(user, folder.uuid, found, folder, delete_ok)
    \/ \E user \in Users, cipher \in CipherIds, data \in CipherDataCases :
           PostCiphers(user, cipher, data)
    \/ \E user \in Users, uuid \in CipherIds, found \in BOOLEAN, access \in BOOLEAN,
          data \in CipherDataCases : PutCipher(user, uuid, found, access, data)
    \/ \E user \in Users, item \in CipherItems : DeleteCipher(user, item)
    \/ \E user \in Users, items \in ItemLists : DeleteCipherSelected(user, items)
    \/ \E user \in Users, folder \in {"none", "missing", "foreign", "own"}, items \in ItemLists :
           MoveCipherSelected(user, folder, items)
    \/ \E user \in Users, password_ok \in BOOLEAN, ciphers \in OwnedLists :
           \E folders \in FolderLists(user) : DeleteAll(user, password_ok, ciphers, folders)
    \/ \E user \in Users, att \in {"missing", "other", "own"}, item \in CipherItems :
           DeleteAttachment(user, att, item)
    \/ Respond

SpecReq == Init /\ [][NextReq]_vars

\* --------------------------------------------------------- the encoder
\* The encoder as a function of its input: each action applies one of its
\* functions to one input and records the input and the bytes produced.
MaxBody == 160

\* Values whose encodings run from 1 byte to past the first two-byte size.
BodyValues == {VArr([i \in 1..n |-> VInt(i % 128)]) : n \in 0..MaxBody}

\* The sizes the size loop is run on by itself: none, and those around
\* the steps to three and to four size bytes.
Sizes == {0, 2 ^ 14 - 1, 2 ^ 14, 2 ^ 21 - 1, 2 ^ 21}

\* Timestamps from 1901 to 2038, with every kind of sub-second part.
Dates ==
    {[secs |-> sec, nanos |-> n] :
        sec \in {0, 1, 1700000000, 2 ^ 30 + (2 ^ 30 - 1), -1, -86400, (-(2 ^ 30)) - 2 ^ 30},
        n \in {0, 1, 123456789, 999999999}}

EncEv(op, input, ty, data, size) ==
    [Ev(op, 0, "ok", NoMsg, <<>>) EXCEPT !.arg = input, !.ut = ty, !.data = data, !.idx = size]

Serialize(val) ==
    /\ ev' = EncEv("serialize", val, 0, serialize(val), Len(write_value(val)))
    /\ UNCHANGED <<hstate, user_uuid, map, timers, crashed, nmsg, pub, req, wire>>

\* The size loop of serialize on a buffer of the given length.
SizeBytes(size) ==
    /\ ev' = EncEv("len_buf", None, 0, len_buf(size), size)
    /\ UNCHANGED <<hstate, user_uuid, map, timers, crashed, nmsg, pub, req, wire>>

SerializeDate(date) ==
    /\ LET val == serialize_date(date)
       IN  ev' = EncEv("serialize_date", date, val.ty, val.v, Len(val.v))
    /\ UNCHANGED <<hstate, user_uuid, map, timers, crashed, nmsg, pub, req, wire>>

NextCodec ==
    \/ \E val \in BodyValues : Serialize(val)
    \/ \E size \in Sizes : SizeBytes(size)
    \/ \E date \in Dates : SerializeDate(date)

SpecCodec == Init /\ [][NextCodec]_vars

\* ------------------------------------------------------------- claims
Count(v, x) == Cardinality({i \in 1..Len(v) : v[i] = x})

\* The connections registered under u and not yet deregistered: their
\* on_open stored u and their connection_lost has not run.
Registered(u) == {c \in Conns : user_uuid[c] = u /\ hstate[c] \in {"open", "closing"}}

InSomeEntry(c) == \E u \in DOMAIN map : c \in Range(map[u])

PublishOps == {"send_user_update", "send_folder_update", "send_cipher_update"}

\* The senders of a step's deliveries, in order.
SentTo(step) == [i \in 1..Len(step.sent) |-> step.sent[i].to]

\* The entry up to its first sender whose send fails.
UpToFirstFailure(entry, fails) ==
    LET bad == {i \in 1..Len(entry) : entry[i] \in fails} IN
    IF bad = {} THEN entry ELSE SubSeq(entry, 1, Min(bad) - 1)

\* C1: at every point the entry of every user holds exactly the connections
\* registered under it and not yet deregistered, each once; there is no
\* entry for anything but a user.
C1_RegistryInvariant ==
    /\ DOMAIN map \subseteq Users
    /\ \A u \in Users : \A c \in Conns :
         Count(Entry(map, u), c) = IF c \in Registered(u) THEN 1 ELSE 0
    /\ \A u \in DOMAIN map : Range(map[u]) \subseteq Conns

\* One connection of a user is registered while another of the same user
\* has been deregistered.
C1_Witness ==
    \E u \in Users : \E c \in Conns :
        /\ Entry(map, u) # <<>>
        /\ hstate[c] = "lost"
        /\ user_uuid[c] = u

\* C2 (as claimed): in every send_update call, each connection of the
\* user's entry whose own send does not fail is sent the frame, whatever
\* happens to the sends to the other connections of the entry.
C2_FanOutIndependence ==
    \A b \in Range(ev.step.entry) :
        b \notin ev.step.fails => b \in Range(SentTo(ev.step))

\* C3: no publish operation ends in an error, whichever sends fail;
\* send_cipher_update returns only after the turn of its last target user,
\* and every turn sends to the user's entry up to the first failing sender
\* of that entry, whatever failed for the users before.
C3_PublishReturnsAndGoesOn ==
    /\ ev.op \in PublishOps => ev.res \in {"unit", "running"}
    /\ (ev.op = "send_cipher_update" /\ ev.res # "running" /\ ev.user_uuids # <<>>) =>
          /\ ev.idx = Len(ev.user_uuids)
          /\ ev.step.user = ev.user_uuids[ev.idx]
    /\ (ev.op = "send_cipher_update" /\ ev.idx > 0) =>
          /\ ev.step.user = ev.user_uuids[ev.idx]
          /\ SentTo(ev.step) = UpToFirstFailure(Entry(map, ev.step.user), ev.step.fails)

\* A send_cipher_update has returned after a send failed for an earlier
\* target user and the last target user's connection was sent the frame.
C3_Witness ==
    /\ ev.op = "send_cipher_update"
    /\ ev.res = "unit"
    /\ ev.errs >= 1
    /\ ev.step.sent # <<>>

\* C4: a send_update call of a publish looks up the target identity (the
\* user's own id, the folder's owner, the next id of user_uuids); when none
\* of its sends fails, every connection registered under that identity is
\* sent the frame once; every frame it sends is the frame of the call and
\* goes to a connection of that identity.
C4_FanOutToTargets ==
    (ev.op \in PublishOps /\ ev.step.user # None) =>
        /\ ev.op = "send_user_update" => ev.step.user = ev.arg.uuid
        /\ ev.op = "send_folder_update" => ev.step.user = ev.arg.user_uuid
        /\ ev.op = "send_cipher_update" => ev.step.user = ev.user_uuids[ev.idx]
        /\ ev.step.res = "Ok" =>
              \A c \in Conns :
                  Count(SentTo(ev.step), c) = IF c \in Registered(ev.step.user) THEN 1 ELSE 0
        /\ \A i \in 1..Len(ev.step.sent) :
              /\ ev.step.sent[i].data = ev.data
              /\ user_uuid[ev.step.sent[i].to] = ev.step.user
        /\ ev.op = "send_cipher_update" => ev.data = cipher_update_data(ev.ut, ev.arg)

\* A folder publish was sent to its owner's connection while another user
\* had a connection registered.
C4_Witness ==
    /\ ev.op = "send_folder_update"
    /\ ev.step.res = "Ok"
    /\ ev.step.sent # <<>>
    /\ \E u \in Users : u # ev.step.user /\ Entry(map, u) # <<>>

\* The resource parses and the verifier refuses its token.
TokenRefused(path) ==
    /\ ParseQuery(path).tag = "ok"
    /\ decode_jwt(ParseQuery(path).access_token) = None

\* C5: on_open with a token that fails verification returns an error; at
\* every point a connection so refused is in no entry and has no timeout
\* scheduled.
C5_RefusedNeverRegistered ==
    /\ (ev.op = "on_open" /\ TokenRefused(ev.msg.data)) =>
          /\ ev.res = "err"
          /\ user_uuid[ev.conn] = None
          /\ hstate[ev.conn] = "closing"
    /\ \A c \in Conns :
          (hstate[c] \in {"closing", "lost"} /\ user_uuid[c] = None) =>
              /\ ~InSomeEntry(c)
              /\ timers[c] = 0

\* on_open has refused a token while another connection is registered.
C5_Witness ==
    /\ ev.op = "on_open"
    /\ ev.msg.data = ResBadToken
    /\ ev.res = "err"
    /\ \E u \in Users : Entry(map, u) # <<>>

\* C6 (as claimed): connection_lost of a handler whose identity was never
\* set returns without a panic and the websocket thread keeps running, so
\* that the other connections go on receiving frames and pings.
C6_TeardownWithoutIdentity ==
    (ev.op = "connection_lost" /\ user_uuid[ev.conn] = None) =>
        /\ ev.res = "ok"
        /\ ~crashed

\* The resources without a query string or without one of the two
\* parameters.
LackingResources == {ResNoQuery, ResEmptyQuery, ResOnlyId, ResOnlyToken, ResNoIdKey}

\* C7 (as claimed): on_open of a resource without a query string or without
\* one of the two parameters returns an error, does not panic and does not
\* register the connection.
C7_LackingQueryRejected ==
    (ev.op = "on_open" /\ ev.msg.data \in LackingResources) =>
        /\ ev.res = "err"
        /\ ~crashed
        /\ ~InSomeEntry(ev.conn)

\* JSON bodies other than the expected negotiation object.
OtherJsonBodies == {JsonProtoJson, JsonVersion2, JsonArray}

\* C8: when its send succeeds, on_message of the text made of the
\* negotiation object and one record separator sends the three bytes
\* 7B 7D 1E as a binary message and nothing else, and on_message of a text
\* with any other JSON body sends that message back and nothing else;
\* neither panics.
C8_NegotiationAcceptance ==
    /\ (ev.op = "on_message" /\ ev.msg = Text(HandshakeJson \o <<30>>)) =>
          /\ ev.res # "panic"
          /\ ev.res = "ok" => ev.sent = <<[to |-> ev.conn, msg |-> Binary(<<123, 125, 30>>)]>>
    /\ \A body \in OtherJsonBodies :
          (ev.op = "on_message" /\ ev.msg = Text(body \o <<30>>)) =>
              /\ ev.res # "panic"
              /\ ev.res = "ok" => ev.sent = <<[to |-> ev.conn, msg |-> Text(body \o <<30>>)]>>

\* The negotiation message was answered with the acknowledgement.
C8_Witness ==
    /\ ev.op = "on_message"
    /\ ev.msg = Text(HandshakeJson \o <<30>>)
    /\ ev.sent = <<[to |-> ev.conn, msg |-> Binary(<<123, 125, 30>>)]>>

\* Messages that are not the expected negotiation message.
MalformedMessages ==
    {Text(<<>>), Text(NotJson \o RS), Text(NotJson \o EAcute), Text(JsonProtoJson \o RS),
     Text(JsonVersion2 \o RS), Binary(HandshakeJson \o RS)}

\* C9 (as claimed): on_message of a first message that is not the expected
\* negotiation message does not panic, and when its send succeeds it has
\* echoed the message and the connection stays open and registered.
C9_MalformedNegotiationNonFatal ==
    (ev.op = "on_message" /\ ev.idx = 1 /\ ev.msg \in MalformedMessages) =>
        /\ ev.res # "panic"
        /\ ~crashed
        /\ ev.res = "ok" =>
              /\ ev.sent = <<[to |-> ev.conn, msg |-> ev.msg]>>
              /\ hstate[ev.conn] = "open"
              /\ InSomeEntry(ev.conn)

\* C10 (as claimed): the acknowledgement is sent only in answer to the
\* first message of a connection, hence at most once.
C10_AckOnlyForFirstMessage ==
    (ev.op = "on_message" /\ ev.res = "ok" /\ ev.sent[1].msg = Binary(INITIAL_RESPONSE)) =>
        ev.idx = 1

\* C11: a connection whose connection_lost has run is in no entry and has
\* no timeout scheduled; no ping and no published frame goes to it; a send
\* that fails because the connection is closing ends the send_update call
\* without an error for the caller and without a second attempt.
C11_ClosedConnectionGetsNothing ==
    /\ \A c \in Conns : hstate[c] = "lost" => (~InSomeEntry(c) /\ timers[c] = 0)
    /\ \A i \in 1..Len(ev.sent) : hstate[ev.sent[i].to] # "lost"
    /\ \A i \in 1..Len(ev.step.sent) : hstate[ev.step.sent[i].to] # "lost"
    /\ ev.op \in PublishOps =>
          /\ ev.res # "error"
          /\ Range(SentTo(ev.step)) \cap ev.step.fails = {}
          /\ \A c \in Conns : Count(SentTo(ev.step), c) <= 1

\* A publish to a user failed on a closing connection of the user while
\* another connection of the same user had already been lost.
C11_Witness ==
    /\ ev.op \in PublishOps
    /\ ev.step.res = "Err"
    /\ \E c \in ev.step.fails : hstate[c] = "closing"
    /\ \E d \in Conns : hstate[d] = "lost" /\ user_uuid[d] = ev.step.user

\* C12: a connection_lost step removes exactly the handle of its connection
\* from the entry of its user and changes no count of any other handle in
\* any entry; run again on the result it changes nothing.
C12_DeregistrationExact ==
    [][(ev'.op = "connection_lost" /\ ev'.res = "ok") =>
          LET c == ev'.conn
              u == user_uuid[c]
          IN  /\ DOMAIN map' = DOMAIN map
              /\ \A v \in DOMAIN map : \A d \in Conns :
                    Count(map'[v], d) =
                        IF v = u /\ d = c /\ Count(map[v], d) > 0
                        THEN Count(map[v], d) - 1 ELSE Count(map[v], d)
              /\ Count(Entry(map', u), c) = 0
              /\ connection_lost(map', u, c).map = map'
              /\ \A d \in Conns : connection_lost(map', u, d).map = remove_sender(map', u, d)
      ]_vars

\* A connection was deregistered while another connection of the same user
\* stays registered.
C12_Witness ==
    /\ ev.op = "connection_lost"
    /\ ev.res = "ok"
    /\ Entry(map, user_uuid[ev.conn]) # <<>>

\* The sender a send_update call failed on: the one after those it sent to.
FailedSender(step) == step.entry[Len(step.sent) + 1]

\* C13 (as claimed): when a publish call has returned after a send to a
\* connection failed, that connection is no longer in the registry.
C13_FailedSendDeregisters ==
    (ev.op \in PublishOps /\ ev.res = "unit" /\ ev.step.res = "Err") =>
        ~InSomeEntry(FailedSender(ev.step))

WithoutEntry(m, u) == [v \in DOMAIN m \ {u} |-> m[v]]

WithEmptyEntry(m, u) == [v \in DOMAIN m \cup {u} |-> IF v = u THEN <<>> ELSE m[v]]

\* C15: a send_update call of a publish for a user whose entry is absent or
\* empty sends nothing, returns Ok, and leaves the map as it was; the call
\* does the same on the map without the entry and on the map with an empty
\* entry.
C15_LookupMissIsSilent ==
    [][(ev'.op \in PublishOps /\ ev'.step.user # None /\ Entry(map, ev'.step.user) = <<>>) =>
          LET u == ev'.step.user IN
          /\ ev'.step.sent = <<>>
          /\ ev'.step.res = "Ok"
          /\ ev'.res # "error"
          /\ map' = map
          /\ SendStep(WithoutEntry(map, u), u, ev'.data, {})
                = SendStep(WithEmptyEntry(map, u), u, ev'.data, {})
          /\ ev'.step = SendStep(WithoutEntry(map, u), u, ev'.data, {})
      ]_vars

\* A publish was made for a user whose entry was emptied by the
\* deregistration of its connections.
C15_Witness ==
    /\ ev.op \in PublishOps
    /\ ev.step.user \in DOMAIN map
    /\ map[ev.step.user] = <<>>
    /\ ev.step.sent = <<>>

\* C16: under every interleaving of on_open and connection_lost callbacks
\* no registration is lost: an entry is as long as the number of
\* connections registered under its user, every connection that registered
\* and was not lost is in the entry of its user, and none that was lost is
\* in any entry.
C16_NoLostUpdate ==
    /\ \A u \in Users : Len(Entry(map, u)) = Cardinality(Registered(u))
    /\ \A c \in Conns :
          (hstate[c] \in {"open", "closing"} /\ user_uuid[c] # None) =>
              c \in Range(Entry(map, user_uuid[c]))
    /\ \A c \in Conns : hstate[c] = "lost" => ~InSomeEntry(c)

\* Two connections of one user are both in its entry.
C16_Witness ==
    \E u \in Users : Len(Entry(map, u)) = 2 /\ Cardinality(Registered(u)) = 2

EntriesOf(m, c) == {u \in DOMAIN m : c \in Range(m[u])}

\* C18: after every step each handle is in at most one entry and at most
\* once in it; a connection that registered and was not lost is exactly
\* once in the entry of its identity; a successful on_open stores the
\* subject of the token as the identity; an identity once stored never
\* changes.
C18_OneEntryOneIdentity ==
    [][/\ \A c \in Conns :
             /\ Cardinality(EntriesOf(map', c)) <= 1
             /\ \A u \in DOMAIN map' : Count(map'[u], c) <= 1
       /\ \A c \in Conns :
             (hstate'[c] \in {"open", "closing"} /\ user_uuid'[c] # None) =>
                 /\ EntriesOf(map', c) = {user_uuid'[c]}
                 /\ Count(map'[user_uuid'[c]], c) = 1
       /\ (ev'.op = "on_open" /\ ev'.res = "ok") =>
             user_uuid'[ev'.conn] = decode_jwt(ParseQuery(ev'.msg.data).access_token)
       /\ \A c \in Conns : user_uuid[c] # None => user_uuid'[c] = user_uuid[c]
      ]_vars

\* Connections of two different users are registered, each in the entry of
\* its own user.
C18_Witness ==
    \E c \in Conns, d \in Conns :
        /\ hstate[c] = "open"
        /\ hstate[d] = "open"
        /\ user_uuid[c] = "u1"
        /\ user_uuid[d] = "u2"
        /\ EntriesOf(map, c) = {"u1"}
        /\ EntriesOf(map, d) = {"u2"}

\* e is the save or the delete of the object (obj, uuid); the delete of an
\* attachment counts for the cipher it belongs to.
Persists(e, obj, uuid) ==
    /\ e.kind \in {"save", "delete"}
    /\ \/ e.obj = obj /\ e.uuid = uuid
       \/ e.obj = "attachment" /\ obj = "cipher" /\ e.of = uuid

C20_FolderTagMatches ==
    \A i \in 1..Len(req.log) :
        (req.log[i].kind = "publish" /\ req.log[i].obj = "folder") =>
            /\ i > 1
            /\ req.log[i].ut =
                  IF req.log[i - 1].kind = "delete" THEN 3
                  ELSE IF req.log[i - 1].new THEN 7 ELSE 8

\* ----------------------------------------------- the client's decoder
\* What a client reads from a frame: the size bytes, then one msgpack
\* value.  The strings are those of the protocol.
KnownStrings ==
    {"ReceiveMessage", "ContextId", "app_id", "Type", "Payload", "Id", "UserId",
     "OrganizationId", "CollectionIds", "RevisionDate", "Date", "u1", "u2", "f1", "f2",
     "c1", "c2", "o1"}

FromBytes(b) ==
    IF \E str \in KnownStrings : StrBytes(str) = b
    THEN CHOOSE str \in KnownStrings : StrBytes(str) = b
    ELSE "?"

\* The place of the last size byte: the first byte without 0x80.
PrefixLen(b) == Min({i \in 1..Len(b) : b[i] < 128} \cup {Len(b) + 1})

\* The size bytes read as 7-bit groups, least significant first.
RECURSIVE read_size(_, _)
read_size(b, i) ==
    IF i > Len(b) THEN 0
    ELSE IF b[i] < 128 THEN b[i]
    ELSE (b[i] - 128) + 128 * read_size(b, i + 1)

Bad == [t |-> "bad"]

\* The value that starts at b[i] and the place after it.
RECURSIVE read_value(_, _)
RECURSIVE read_items(_, _, _)
RECURSIVE read_pairs(_, _, _)
read_items(b, i, n) ==
    IF n = 0 THEN [v |-> <<>>, next |-> i]
    ELSE LET first == read_value(b, i)
             rest == read_items(b, first.next, n - 1)
         IN  [v |-> <<first.v>> \o rest.v, next |-> rest.next]

read_pairs(b, i, n) ==
    IF n = 0 THEN [v |-> <<>>, next |-> i]
    ELSE LET key == read_value(b, i)
             val == read_value(b, key.next)
             rest == read_pairs(b, val.next, n - 1)
         IN  [v |-> << <<key.v, val.v>> >> \o rest.v, next |-> rest.next]

read_value(b, i) ==
    IF i > Len(b) THEN [v |-> Bad, next |-> Len(b) + 2]
    ELSE LET tag == b[i] IN
         CASE tag < 128 -> [v |-> VInt(tag), next |-> i + 1]
           [] tag >= 128 /\ tag < 144 ->
                LET r == read_pairs(b, i + 1, tag - 128)
                IN  [v |-> VMap(r.v), next |-> r.next]
           [] tag >= 144 /\ tag < 160 ->
                LET r == read_items(b, i + 1, tag - 144)
                IN  [v |-> VArr(r.v), next |-> r.next]
           [] tag >= 160 /\ tag < 192 ->
                IF i + (tag - 160) > Len(b) THEN [v |-> Bad, next |-> Len(b) + 2]
                ELSE [v |-> VStr(FromBytes(SubSeq(b, i + 1, i + (tag - 160)))),
                      next |-> i + 1 + (tag - 160)]
           [] tag = 192 -> [v |-> VNil, next |-> i + 1]
           [] tag = 215 ->
                IF i + 9 > Len(b) THEN [v |-> Bad, next |-> Len(b) + 2]
                ELSE [v |-> VExt(IF b[i + 1] >= 128 THEN b[i + 1] - 256 ELSE b[i + 1],
                                 SubSeq(b, i + 2, i + 9)),
                      next |-> i + 10]
           [] OTHER -> [v |-> Bad, next |-> Len(b) + 2]

\* The value of a frame; Bad unless the size bytes give the length of the
\* rest and the rest is exactly one value.
Decode(frame) ==
    LET n == PrefixLen(frame)
        r == read_value(frame, n + 1)
    IN  IF n <= Len(frame) /\ read_size(frame, 1) = Len(frame) - n /\ r.next = Len(frame) + 1
        THEN r.v ELSE Bad

\* The frames the publish operations build, decoded once.
PublishedFrames ==
    {UserFrames[x] : x \in DOMAIN UserFrames} \cup {FolderFrames[x] : x \in DOMAIN FolderFrames}
        \cup {CipherFrames[x] : x \in DOMAIN CipherFrames}

Decoded == [frame \in PublishedFrames |-> Decode(frame)]

Keys(m) == {m.v[i][1].v : i \in 1..Len(m.v)}

Field(m, key) == (CHOOSE pair \in Range(m.v) : pair[1] = VStr(key))[2]

IsEnvelope(d) ==
    /\ d.t = "arr" /\ Len(d.v) = 5
    /\ d.v[1] = VInt(1)
    /\ d.v[2] = VArr(<<>>)
    /\ d.v[3] = VNil
    /\ d.v[4] = VStr("ReceiveMessage")
    /\ d.v[5].t = "arr" /\ Len(d.v[5].v) = 1
    /\ d.v[5].v[1].t = "map"
    /\ Len(d.v[5].v[1].v) = 3
    /\ Keys(d.v[5].v[1]) = {"ContextId", "Type", "Payload"}
    /\ Field(d.v[5].v[1], "ContextId") = VStr("app_id")
    /\ Field(d.v[5].v[1], "Type").t = "int"
    /\ Field(d.v[5].v[1], "Payload").t = "map"

TypeOf(d) == Field(d.v[5].v[1], "Type").v

PayloadOf(d) == Field(d.v[5].v[1], "Payload")

\* The frames a publish operation handed to senders in its last step.
FramesSent == {ev.step.sent[i].data : i \in 1..Len(ev.step.sent)}

WireKeys == {"Id", "UserId", "OrganizationId", "CollectionIds", "RevisionDate"}

\* C22 (as claimed): the payload of every published cipher, folder and
\* user event has no key outside Id, UserId, OrganizationId, CollectionIds
\* and RevisionDate, and carries the last-modified time under RevisionDate.
C22_WireKeysInAllEvents ==
    ev.op \in PublishOps =>
        \A frame \in FramesSent :
            /\ Keys(PayloadOf(Decoded[frame])) \subseteq WireKeys
            /\ "RevisionDate" \in Keys(PayloadOf(Decoded[frame]))

\* C22 (amended): the payload of every published cipher and folder event
\* has no key outside Id, UserId, OrganizationId, CollectionIds and
\* RevisionDate and carries the last-modified time under RevisionDate; the
\* payload of a user event has the keys UserId and Date and carries the
\* last-modified time under Date.
C22_WireKeysByEvent ==
    ev.op \in PublishOps =>
        \A frame \in FramesSent :
            LET payload == PayloadOf(Decoded[frame])
                time == VExt(-1, [k \in 1..8 |-> TimestampByte(ev.arg.updated_at, k)])
            IN  IF ev.op = "send_user_update"
                THEN /\ Keys(payload) = {"UserId", "Date"}
                     /\ Field(payload, "Date") = time
                ELSE /\ Keys(payload) \subseteq WireKeys
                     /\ "RevisionDate" \in Keys(payload)
                     /\ Field(payload, "RevisionDate") = time

\* A user event was handed to a connection; its time is under Date.
C22_Witness ==
    /\ ev.op = "send_user_update"
    /\ ev.step.sent # <<>>
    /\ "Date" \in Keys(PayloadOf(Decode(ev.step.sent[1].data)))

\* C23: the size bytes serialize puts before a body of n bytes, read as
\* 7-bit groups least significant first, give n, the length of the rest of
\* the frame; every size byte but the last has 0x80 set and the last has
\* it clear.  This holds from n = 0 on and past n = 127.
C23_FrameRoundTrip ==
    /\ ev.op = "serialize" =>
          LET n == PrefixLen(ev.data) IN
          /\ n <= Len(ev.data)
          /\ SubSeq(ev.data, n + 1, Len(ev.data)) = write_value(ev.arg)
          /\ read_size(ev.data, 1) = Len(ev.data) - n
    /\ ev.op = "len_buf" =>
          /\ ev.data # <<>>
          /\ \A i \in 1..(Len(ev.data) - 1) : ev.data[i] >= 128
          /\ ev.data[Len(ev.data)] < 128
          /\ read_size(ev.data, 1) = ev.idx

\* A body of 128 bytes or more was framed: its size takes two bytes.
C23_Witness ==
    /\ ev.op = "serialize"
    /\ ev.idx >= 128
    /\ PrefixLen(ev.data) = 2
    /\ ev.data[1] >= 128

\* C24 (as claimed): for every timestamp serialize_date gives extension
\* type -1 with 8 bytes, most significant first, whose low 34 bits are the
\* seconds since the epoch and whose upper 30 bits are the nanoseconds of
\* the second.
C24_TimestampPacking ==
    ev.op = "serialize_date" =>
        /\ ev.ut = -1
        /\ Len(ev.data) = 8
        /\ ev.data[1] * (2 ^ 22) + ev.data[2] * (2 ^ 14) + ev.data[3] * (2 ^ 6)
              + (ev.data[4] \div 4) = ev.arg.nanos
        /\ ev.arg.secs >= 0
        /\ ev.data[4] % 4 = 0
        /\ ev.data[5] = (ev.arg.secs \div (2 ^ 24)) % 256
        /\ ev.data[6] = (ev.arg.secs \div (2 ^ 16)) % 256
        /\ ev.data[7] = (ev.arg.secs \div (2 ^ 8)) % 256
        /\ ev.data[8] = ev.arg.secs % 256

\* C24 (amended): for every timestamp serialize_date gives extension type
\* -1 with 8 bytes, most significant first; for a timestamp from the epoch
\* on (with seconds below 2^34) the low 34 bits are the seconds since the
\* epoch and the upper 30 bits are the nanoseconds of the second.
C24_TimestampPackingFromEpoch ==
    ev.op = "serialize_date" =>
        /\ ev.ut = -1
        /\ Len(ev.data) = 8
        /\ ev.arg.secs >= 0 =>
              /\ ev.data[1] * (2 ^ 22) + ev.data[2] * (2 ^ 14) + ev.data[3] * (2 ^ 6)
                    + (ev.data[4] \div 4) = ev.arg.nanos
              /\ ev.data[4] % 4 = 0
              /\ ev.data[5] = (ev.arg.secs \div (2 ^ 24)) % 256
              /\ ev.data[6] = (ev.arg.secs \div (2 ^ 16)) % 256
              /\ ev.data[7] = (ev.arg.secs \div (2 ^ 8)) % 256
              /\ ev.data[8] = ev.arg.secs % 256

\* 1700000000 s and 123456789 ns were packed: 0x1D6F3454 6553F100.
C24_Witness ==
    /\ ev.op = "serialize_date"
    /\ ev.arg = [secs |-> 1700000000, nanos |-> 123456789]
    /\ ev.data = <<29, 111, 52, 84, 101, 83, 241, 0>>

\* C27: an on_timeout whose token is not PING returns an error, which
\* closes its connection; it sends nothing, schedules no timeout, and
\* leaves the registry as it was.
C27_UnknownTokenIsFatal ==
    [][(ev'.op = "on_timeout" /\ ev'.ut # PING) =>
          /\ ev'.res = "err"
          /\ ev'.sent = <<>>
          /\ hstate[ev'.conn] = "open"
          /\ hstate' = [hstate EXCEPT ![ev'.conn] = "closing"]
          /\ timers' = timers
          /\ map' = map]_vars

\* A timeout with another token closed a registered connection while a
\* second connection was registered.
C27_Witness ==
    /\ ev.op = "on_timeout"
    /\ ev.ut # PING
    /\ ev.res = "err"
    /\ hstate[ev.conn] = "closing"
    /\ InSomeEntry(ev.conn)
    /\ \E c \in Conns \ {ev.conn} : InSomeEntry(c) /\ hstate[c] = "open"

\* C28: a publish, an on_message and an on_timeout leave the registry as
\* it was; a connection_lost changes the entry of its connection's
\* user only, and only by taking that connection out of it; so a
\* connection leaves the registry in its own connection_lost and nowhere
\* else.
C28_OnlyTeardownDeregisters ==
    [][/\ ev'.op \in PublishOps \cup {"on_message", "on_timeout"} => map' = map
       /\ ev'.op = "connection_lost" =>
             /\ DOMAIN map' = DOMAIN map
             /\ \A u \in DOMAIN map :
                   map'[u] = IF u = user_uuid[ev'.conn]
                             THEN remove_item(map[u], ev'.conn)
                             ELSE map[u]
       /\ \A c \in Conns :
             (InSomeEntry(c) /\ ~InSomeEntry(c)') =>
                 (ev'.op = "connection_lost" /\ ev'.conn = c)]_vars

\* A cipher was published to the two connections of a user, one of which
\* has negotiated; both are still registered.
C28_Witness ==
    /\ ev.op = "send_cipher_update"
    /\ Len(ev.step.sent) = 2
    /\ \E c \in Conns : nmsg[c] > 0 /\ InSomeEntry(c) /\ hstate[c] = "open"
    /\ \E u \in DOMAIN map : Len(map[u]) = 2

\* C29 (as claimed): a request that publishes the deletion of a cipher
\* (tag 9) has deleted that cipher from storage before.
C29_DeleteTagOnlyForDeletedCipher ==
    \A i \in 1..Len(req.log) :
        (req.log[i].kind = "publish" /\ req.log[i].ut = SyncCipherDelete) =>
            \E j \in 1..(i - 1) :
                /\ req.log[j].kind = "delete"
                /\ req.log[j].obj = "cipher"
                /\ req.log[j].uuid = req.log[i].uuid
                /\ req.log[j].ok

\* C30 (as claimed): a request that is answered with an error has
\* published nothing.
C30_ErrorMeansNothingPublished ==
    req.res = "err" => \A i \in 1..Len(req.log) : req.log[i].kind # "publish"

====
